---- MODULE Spec2Model ----
(***************************************************************************)
(* Model of servers/fastapi/utils/template_llm_provider.py: the choice of  *)
(* the LLM provider used for template generation, and its two boolean      *)
(* wrappers.  Every call is a short sequence of steps (read the override   *)
(* setting, read the content provider, decide, and for the wrappers the    *)
(* final comparison); several calls may be in flight at once.              *)
(***************************************************************************)
EXTENDS Naturals, FiniteSets

(* Number of calls that may be in flight together. *)
NumCalls == 2

Calls == 1..NumCalls

(* ---- Provider values ------------------------------------------------- *)
OPENAI == "OPENAI"
OLLAMA == "OLLAMA"
CUSTOM == "CUSTOM"
(* A provider kind that is neither the API provider nor a local kind. *)
GOOGLE == "GOOGLE"

LLMProvider == {OPENAI, OLLAMA, CUSTOM, GOOGLE}

(* The provider kinds the code lists as local: [OLLAMA, CUSTOM]. *)
LocalProviders == {OLLAMA, CUSTOM}

(* The closed set of three kinds the specification declares. *)
ClosedProviders == {OPENAI, OLLAMA, CUSTOM}

(* ---- Override setting ------------------------------------------------ *)
(* Python None: the setting is not set, or a local holds no value yet. *)
None == "<None>"

(* Values TEMPLATE_LLM_PROVIDER may hold; "API" stands for any string     *)
(* that is neither "api" nor "local".                                     *)
TriState == {"api", "local", None}
SettingValues == TriState \cup {"API"}

(* ---- Failures of the external lookups -------------------------------- *)
LookupErrors == {"ValueError", "RuntimeError"}

Ok(v) == [ok |-> TRUE, val |-> v]
Failed(e) == [ok |-> FALSE, val |-> e]

SettingLookups == {Ok(v) : v \in SettingValues} \cup {Failed(e) : e \in LookupErrors}
ProviderLookups == {Ok(v) : v \in LLMProvider} \cup {Failed(e) : e \in LookupErrors}

(* ---- Outcomes of a call ---------------------------------------------- *)
Pending == [kind |-> "pending", provider |-> None, flag |-> FALSE, err |-> None]
ReturnProvider(p) == [kind |-> "provider", provider |-> p, flag |-> FALSE, err |-> None]
ReturnBool(b) == [kind |-> "bool", provider |-> None, flag |-> b, err |-> None]
Raise(e) == [kind |-> "raise", provider |-> None, flag |-> FALSE, err |-> e]

Ops == {"get", "local", "api"}

VARIABLES
  overrideEnv,                \* what get_template_llm_provider_env() yields
  contentEnv,                 \* what get_llm_provider() yields
  pc,                         \* position of each call
  op,                         \* entry point of each call
  template_provider_setting,  \* local of get_template_llm_provider
  content_provider,           \* local of get_template_llm_provider
  resolved,                   \* value returned by get_template_llm_provider
  outcome                     \* what the caller of the entry point receives

env == <<overrideEnv, contentEnv>>
vars == <<overrideEnv, contentEnv, pc, op, template_provider_setting,
          content_provider, resolved, outcome>>

(* ---- External lookups ------------------------------------------------ *)
get_template_llm_provider_env == overrideEnv
get_llm_provider == contentEnv

(* ---- Pure decision --------------------------------------------------- *)
(* Faulty variants of the decision, each a slip in one branch. *)
DecideDefaultFirst(setting, content) ==
  IF content \in LocalProviders THEN content
  ELSE IF setting = "local" THEN content
  ELSE OPENAI

DecideLocalOnlyIfLocal(setting, content) ==
  IF setting = "api" THEN OPENAI
  ELSE IF content \in LocalProviders THEN content
  ELSE OPENAI

DecideOllamaOnly(setting, content) ==
  IF setting = "api" THEN OPENAI
  ELSE IF setting = "local" THEN content
  ELSE IF content = OLLAMA THEN content
  ELSE OPENAI

DecideNoElse(setting, content) ==
  IF setting = "api" THEN OPENAI
  ELSE IF setting = "local" THEN content
  ELSE IF content \in LocalProviders THEN content
  ELSE None

DecideUnsetAsLocal(setting, content) ==
  IF setting = "api" THEN OPENAI
  ELSE content

Decide(setting, content) ==
  IF setting = "api" THEN OPENAI
  ELSE IF setting = "local" THEN content
  ELSE IF content \in LocalProviders THEN content
  ELSE OPENAI

IsLocalNotOpenAI(p) == p # OPENAI
IsLocalOllamaOnly(p) == p = OLLAMA
IsLocal(p) == p \in LocalProviders

IsApiNotLocal(p) == p \notin LocalProviders
IsApi(p) == p = OPENAI

(* ---- Initial state --------------------------------------------------- *)
Init ==
  /\ overrideEnv \in SettingLookups
  /\ contentEnv \in ProviderLookups
  /\ pc = [c \in Calls |-> "idle"]
  /\ op = [c \in Calls |-> "get"]
  /\ template_provider_setting = [c \in Calls |-> None]
  /\ content_provider = [c \in Calls |-> None]
  /\ resolved = [c \in Calls |-> None]
  /\ outcome = [c \in Calls |-> Pending]

(* ---- Steps of a call ------------------------------------------------- *)
Call(c, o) ==
  /\ pc[c] = "idle"
  /\ pc' = [pc EXCEPT ![c] = "line28"]
  /\ op' = [op EXCEPT ![c] = o]
  /\ UNCHANGED <<overrideEnv, contentEnv, template_provider_setting,
                 content_provider, resolved, outcome>>

(* Faulty variant: the lookup consumes the setting (pop, not get). *)
ReadSettingPop(c) ==
  /\ pc[c] = "line28"
  /\ IF get_template_llm_provider_env.ok
       THEN /\ template_provider_setting' =
                 [template_provider_setting EXCEPT ![c] = get_template_llm_provider_env.val]
            /\ pc' = [pc EXCEPT ![c] = "line29"]
            /\ overrideEnv' = Ok(None)
            /\ UNCHANGED outcome
       ELSE /\ outcome' = [outcome EXCEPT ![c] = Raise(get_template_llm_provider_env.val)]
            /\ pc' = [pc EXCEPT ![c] = "done"]
            /\ UNCHANGED <<template_provider_setting, overrideEnv>>
  /\ UNCHANGED <<contentEnv, op, content_provider, resolved>>

(* Faulty variant: "api" is answered right after the first lookup,     *)
(* before the content provider is looked up.                                      *)
ReadSettingShortCircuit(c) ==
  /\ pc[c] = "line28"
  /\ IF ~get_template_llm_provider_env.ok
       THEN /\ outcome' = [outcome EXCEPT ![c] = Raise(get_template_llm_provider_env.val)]
            /\ pc' = [pc EXCEPT ![c] = "done"]
            /\ UNCHANGED <<template_provider_setting, resolved>>
       ELSE /\ template_provider_setting' =
                 [template_provider_setting EXCEPT ![c] = get_template_llm_provider_env.val]
            /\ IF get_template_llm_provider_env.val = "api"
                 THEN /\ resolved' = [resolved EXCEPT ![c] = OPENAI]
                      /\ outcome' = [outcome EXCEPT ![c] =
                                       IF op[c] = "get" THEN ReturnProvider(OPENAI) ELSE @]
                      /\ pc' = [pc EXCEPT ![c] = IF op[c] = "get" THEN "done"
                                                 ELSE IF op[c] = "local" THEN "line53"
                                                 ELSE "line63"]
                 ELSE /\ pc' = [pc EXCEPT ![c] = "line29"]
                      /\ UNCHANGED <<outcome, resolved>>
  /\ UNCHANGED <<overrideEnv, contentEnv, op, content_provider>>

ReadSetting(c) ==
  /\ pc[c] = "line28"
  /\ IF get_template_llm_provider_env.ok
       THEN /\ template_provider_setting' =
                 [template_provider_setting EXCEPT ![c] = get_template_llm_provider_env.val]
            /\ pc' = [pc EXCEPT ![c] = "line29"]
            /\ UNCHANGED outcome
       ELSE /\ outcome' = [outcome EXCEPT ![c] = Raise(get_template_llm_provider_env.val)]
            /\ pc' = [pc EXCEPT ![c] = "done"]
            /\ UNCHANGED template_provider_setting
  /\ UNCHANGED <<overrideEnv, contentEnv, op, content_provider, resolved>>

ReadContent(c) ==
  /\ pc[c] = "line29"
  /\ IF get_llm_provider.ok
       THEN /\ content_provider' = [content_provider EXCEPT ![c] = get_llm_provider.val]
            /\ pc' = [pc EXCEPT ![c] = "line32"]
            /\ UNCHANGED outcome
       ELSE /\ outcome' = [outcome EXCEPT ![c] = Raise(get_llm_provider.val)]
            /\ pc' = [pc EXCEPT ![c] = "done"]
            /\ UNCHANGED content_provider
  /\ UNCHANGED <<overrideEnv, contentEnv, op, template_provider_setting, resolved>>

get_template_llm_provider(c) ==
  /\ pc[c] = "line32"
  /\ LET p == Decide(template_provider_setting[c], content_provider[c]) IN
       /\ resolved' = [resolved EXCEPT ![c] = p]
       /\ IF op[c] = "get"
            THEN /\ outcome' = [outcome EXCEPT ![c] = ReturnProvider(p)]
                 /\ pc' = [pc EXCEPT ![c] = "done"]
            ELSE /\ pc' = [pc EXCEPT ![c] = IF op[c] = "local" THEN "line53" ELSE "line63"]
                 /\ UNCHANGED outcome
  /\ UNCHANGED <<overrideEnv, contentEnv, op, template_provider_setting, content_provider>>

should_use_local_model_for_templates(c) ==
  /\ pc[c] = "line53"
  /\ outcome' = [outcome EXCEPT ![c] = ReturnBool(IsLocal(resolved[c]))]
  /\ pc' = [pc EXCEPT ![c] = "done"]
  /\ UNCHANGED <<overrideEnv, contentEnv, op, template_provider_setting,
                 content_provider, resolved>>

should_use_api_model_for_templates(c) ==
  /\ pc[c] = "line63"
  /\ outcome' = [outcome EXCEPT ![c] = ReturnBool(IsApi(resolved[c]))]
  /\ pc' = [pc EXCEPT ![c] = "done"]
  /\ UNCHANGED <<overrideEnv, contentEnv, op, template_provider_setting,
                 content_provider, resolved>>

Next ==
  \E c \in Calls :
    \/ \E o \in Ops : Call(c, o)
    \/ ReadSetting(c)
    \/ ReadContent(c)
    \/ get_template_llm_provider(c)
    \/ should_use_local_model_for_templates(c)
    \/ should_use_api_model_for_templates(c)

Spec == Init /\ [][Next]_vars

TypeOK ==
  /\ overrideEnv \in SettingLookups
  /\ contentEnv \in ProviderLookups
  /\ pc \in [Calls -> {"idle", "line28", "line29", "line32", "line53", "line63", "done"}]
  /\ op \in [Calls -> Ops]
  /\ template_provider_setting \in [Calls -> SettingValues]
  /\ content_provider \in [Calls -> LLMProvider \cup {None}]
  /\ resolved \in [Calls -> LLMProvider \cup {None}]

(* ---- Properties ------------------------------------------------------ *)
(* get_template_llm_provider has returned a provider inside call c. *)
GetReturned(c) == pc[c] \in {"line53", "line63", "done"} /\ outcome[c].kind # "raise"

(* Call c, entered through entry point o, has returned a boolean. *)
BoolReturned(c, o) == op[c] = o /\ pc[c] = "done" /\ outcome[c].kind = "bool"

(* C1: with the override setting "api" the resolved provider is OPENAI,    *)
(* whatever the content provider is.                                       *)
C1_ApiOverrideWins ==
  \A c \in Calls :
    (GetReturned(c) /\ overrideEnv = Ok("api")) => resolved[c] = OPENAI

C1_Witness ==
  \E c \in Calls :
    /\ GetReturned(c)
    /\ overrideEnv = Ok("api")
    /\ contentEnv \in {Ok(OLLAMA), Ok(CUSTOM)}

(* C2: with the override setting "local" the resolved provider is exactly  *)
(* the content provider, of whatever kind.                                 *)
C2_LocalOverrideVerbatim ==
  \A c \in Calls :
    (GetReturned(c) /\ overrideEnv = Ok("local")) => resolved[c] = contentEnv.val

C2_Witness ==
  \E c \in Calls :
    /\ GetReturned(c)
    /\ overrideEnv = Ok("local")
    /\ contentEnv = Ok(GOOGLE)

(* C3: with the override setting unset the resolved provider is the        *)
(* content provider when that is OLLAMA or CUSTOM, and OPENAI otherwise.   *)
C3_DefaultPolicy ==
  \A c \in Calls :
    (GetReturned(c) /\ overrideEnv = Ok(None)) =>
      IF contentEnv.val \in {OLLAMA, CUSTOM}
        THEN resolved[c] = contentEnv.val
        ELSE resolved[c] = OPENAI

C3_Witness ==
  \E c \in Calls :
    /\ GetReturned(c)
    /\ overrideEnv = Ok(None)
    /\ contentEnv = Ok(CUSTOM)

(* C4: should_use_local_model_for_templates returns true exactly when the  *)
(* provider resolved from the same inputs is OLLAMA or CUSTOM.             *)
C4_LocalPredicate ==
  \A c \in Calls :
    BoolReturned(c, "local") =>
      /\ outcome[c].flag = (resolved[c] \in {OLLAMA, CUSTOM})
      /\ contentEnv.ok /\ overrideEnv.ok
      /\ resolved[c] =
           (IF overrideEnv.val = "api" THEN OPENAI
            ELSE IF overrideEnv.val = "local" THEN contentEnv.val
            ELSE IF contentEnv.val \in {OLLAMA, CUSTOM} THEN contentEnv.val
            ELSE OPENAI)

C4_Witness ==
  \E c \in Calls :
    /\ BoolReturned(c, "local")
    /\ resolved[c] = GOOGLE
    /\ outcome[c].flag = FALSE

(* C5: should_use_api_model_for_templates returns true exactly when the    *)
(* provider resolved from the same inputs is OPENAI.                       *)
C5_ApiPredicate ==
  \A c \in Calls :
    BoolReturned(c, "api") =>
      /\ outcome[c].flag = (resolved[c] = OPENAI)
      /\ contentEnv.ok /\ overrideEnv.ok
      /\ resolved[c] =
           (IF overrideEnv.val = "api" THEN OPENAI
            ELSE IF overrideEnv.val = "local" THEN contentEnv.val
            ELSE IF contentEnv.val \in {OLLAMA, CUSTOM} THEN contentEnv.val
            ELSE OPENAI)

C5_Witness ==
  \E c \in Calls :
    /\ BoolReturned(c, "api")
    /\ overrideEnv = Ok("local")
    /\ contentEnv = Ok(OPENAI)
    /\ outcome[c].flag = TRUE

(* C6: for an override in {"api", "local", unset} and a content provider   *)
(* in {OPENAI, OLLAMA, CUSTOM}, exactly one of the two predicates is true. *)
C6_ExactlyOneClosedSet ==
  \A c, d \in Calls :
    ( /\ BoolReturned(c, "local")
      /\ BoolReturned(d, "api")
      /\ overrideEnv.val \in TriState
      /\ contentEnv.val \in ClosedProviders ) =>
        outcome[c].flag # outcome[d].flag

C6_Witness ==
  \E c, d \in Calls :
    /\ BoolReturned(c, "local")
    /\ BoolReturned(d, "api")
    /\ overrideEnv = Ok(None)
    /\ contentEnv = Ok(CUSTOM)
    /\ outcome[c].flag = TRUE
    /\ outcome[d].flag = FALSE

(* The step that leaves the decision of call c. *)
C7_DecisionStep ==
  \A c \in Calls :
    (pc[c] = "line32" /\ pc'[c] # "line32") =>
      /\ resolved'[c] \in LLMProvider
      /\ outcome'[c].kind # "raise"
      /\ op[c] = "get" => (pc'[c] = "done" /\ outcome'[c] = ReturnProvider(resolved'[c]))

(* C7: once both lookups have succeeded, the decision is one step that is  *)
(* always possible, yields a provider and never an error, and no step of   *)
(* any call changes the configuration.                                     *)
C7_Total ==
  /\ [](\A c \in Calls : pc[c] = "line32" => ENABLED get_template_llm_provider(c))
  /\ [](\A c \in Calls : (op[c] = "get" /\ pc[c] = "done" /\ overrideEnv.ok /\ contentEnv.ok) =>
          (outcome[c].kind = "provider" /\ outcome[c].provider \in LLMProvider))
  /\ [][C7_DecisionStep /\ UNCHANGED env]_vars

C7_Witness ==
  \E c \in Calls :
    /\ op[c] = "get"
    /\ pc[c] = "done"
    /\ outcome[c].kind = "provider"
    /\ outcome[c].provider \in LLMProvider

(* C8: a failed lookup ends the call with that same failure and without a  *)
(* provider, for all three entry points, also when the override setting is *)
(* "api" and only the content provider lookup fails.                       *)
C8_FailurePropagates ==
  \A c \in Calls :
    /\ (~overrideEnv.ok /\ pc[c] \notin {"idle", "line28"}) =>
         (pc[c] = "done" /\ outcome[c] = Raise(overrideEnv.val) /\ resolved[c] = None)
    /\ (overrideEnv.ok /\ ~contentEnv.ok /\ pc[c] \notin {"idle", "line28", "line29"}) =>
         (pc[c] = "done" /\ outcome[c] = Raise(contentEnv.val) /\ resolved[c] = None)

C8_Witness ==
  \E c \in Calls :
    /\ op[c] = "local"
    /\ overrideEnv = Ok("api")
    /\ contentEnv = Failed("ValueError")
    /\ pc[c] = "done"
    /\ outcome[c] = Raise("ValueError")

(* Calls agree on what they resolve and return. *)
C9_Agree ==
  \A c, d \in Calls :
    /\ (GetReturned(c) /\ GetReturned(d)) => resolved[c] = resolved[d]
    /\ (pc[c] = "done" /\ pc[d] = "done" /\ op[c] = op[d]) => outcome[c] = outcome[d]

(* A call that takes no step keeps its locals and results. *)
C9_Isolated ==
  \A c \in Calls :
    pc'[c] = pc[c] =>
      /\ template_provider_setting'[c] = template_provider_setting[c]
      /\ content_provider'[c] = content_provider[c]
      /\ resolved'[c] = resolved[c]
      /\ outcome'[c] = outcome[c]

(* C9: all calls resolve the same provider and, per entry point, end with  *)
(* the same outcome, however their steps interleave; a step of one call    *)
(* leaves the locals and results of every other call alone.                *)
C9_Interleaving == []C9_Agree /\ [][C9_Isolated]_vars

C9_Witness ==
  /\ \A c \in Calls : op[c] = "get" /\ pc[c] = "done"
  /\ \E c \in Calls : outcome[c].kind = "provider" /\ outcome[c].provider = OLLAMA

(* C10: with a provider kind that is neither OPENAI nor local, the two     *)
(* predicates are never both true, and both are false exactly when the     *)
(* override setting is "local" and the content provider is such a kind.    *)
C10_FourthKind ==
  \A c, d \in Calls :
    (BoolReturned(c, "local") /\ BoolReturned(d, "api")) =>
      /\ ~(outcome[c].flag /\ outcome[d].flag)
      /\ (~outcome[c].flag /\ ~outcome[d].flag) <=>
           (overrideEnv = Ok("local") /\ contentEnv.val \notin ClosedProviders)
      /\ (~outcome[c].flag /\ ~outcome[d].flag) => resolved[c] = contentEnv.val

C10_Witness ==
  \E c, d \in Calls :
    /\ BoolReturned(c, "local")
    /\ BoolReturned(d, "api")
    /\ overrideEnv = Ok("local")
    /\ contentEnv = Ok(GOOGLE)
    /\ ~outcome[c].flag
    /\ ~outcome[d].flag

====
